---- MODULE Spec2Model ----
(***************************************************************************)
(* AegisOS license kernel modules.                                         *)
(*                                                                         *)
(*   aegis-os-core/kernel-module/aegis_lkm_stub.c      (the "core" module: *)
(*       token loader, stub validator, activation, exported queries)       *)
(*   aegis-os-freemium/kernel-module/aegis_lkm.c       (the sysfs module:  *)
(*       read-only attributes tier/version/status/features/...)            *)
(*                                                                         *)
(* Strings are TLA+ strings; Len, \o and SubSeq act on them character by   *)
(* character, so strlen and strstr are computed on the token's text.       *)
(***************************************************************************)
EXTENDS Integers, Sequences, FiniteSets, TLC

VARIABLES
    pc,                     \* position of the core module's lifecycle
    aegis_license_active,   \* static bool  aegis_license_active
    aegis_license_tier,     \* static char *aegis_license_tier
    file,                   \* content of /etc/aegis/auth.token (or Absent)
    buffer,                 \* aegis_read_token_file: the kmalloc'ed buffer
    fh,                     \* aegis_read_token_file: token_file open or not
    token,                  \* aegis_lkm_init: char *token
    tier,                   \* aegis_lkm_init: char *tier
    ret,                    \* aegis_lkm_init: int ret
    first,                  \* which store of aegis_activate_features lands first
    activated,              \* features announced enabled by aegis_activate_features
    outcome,                \* history: how far this load's pipeline got
    prev_run,               \* history: how the previous load of the module ended
    init_ret,               \* what aegis_lkm_init returned: <<>> until it returns
    bytes_read,             \* aegis_read_token_file: ssize_t bytes_read
    nul_index,              \* index of the buffer's terminating NUL, -1 if none stored
    rd_pc, rd_active, rd_tier,  \* a consumer calling the two exported queries
    sys_pc,                 \* position of the sysfs module's lifecycle
    aegis_kobj,             \* sysfs module: static struct kobject *aegis_kobj
    kobj_refs,              \* references held on the "aegis" kobject
    group,                  \* whether aegis_attr_group exists under the kobject
    license_tier,           \* sysfs module: static int license_tier
    sys_rd                  \* per reader: the attribute last read and what it showed

vars == <<pc, aegis_license_active, aegis_license_tier, file, buffer, fh, token,
          tier, ret, first, activated, outcome, prev_run,
          init_ret, bytes_read, nul_index,
          rd_pc, rd_active, rd_tier,
          sys_pc, aegis_kobj, kobj_refs, group, license_tier, sys_rd>>

core_vars == <<pc, aegis_license_active, aegis_license_tier, file, buffer, fh,
               token, tier, ret, first, activated, outcome, prev_run,
               init_ret, bytes_read, nul_index>>

run_vars == <<init_ret, bytes_read, nul_index>>

reader_vars == <<rd_pc, rd_active, rd_tier>>

sys_vars == <<sys_pc, aegis_kobj, kobj_refs, group, license_tier, sys_rd>>

(***************************************************************************)
(* Program constants                                                       *)
(***************************************************************************)
AEGIS_TOKEN_MAX_SIZE == 2048
MinTokenLen == 10
ENOENT == 2
EIO == 5
ENOMEM == 12
EINVAL == 22
AEGIS_LICENSE_TIER == 2
AEGIS_VERSION == "1.0.0-freemium"

\* tokens provisioned in the file fail at most this many of the five checks
MaxDefects == 1
\* concurrent readers of the sysfs attributes
NumSysReaders == 2

NULL == "<NULL>"
Absent ==
    [shape |-> "absent", kid |-> "", iss |-> "", aud |-> "", exp |-> "", tier |-> "",
     sig |-> "none", raw |-> ""]
InitialTier_freemium == "freemium"

InitialTier == "none"

Min(a, b) == IF a < b THEN a ELSE b

(***************************************************************************)
(* The token file.  A token is described by its parts and rendered to the  *)
(* text the loader reads: header.payload.signature, the claims in clear.   *)
(***************************************************************************)
ExpPast == "1000000000"
ExpFuture == "9999999999"
ExpectedIssuer == "aegis"
ExpectedAudience == "aegis-os"

Kids == {"k1", "gamer-key"}
Issuers == {ExpectedIssuer, "evil"}
Audiences == {ExpectedAudience, "other"}
Expiries == {ExpPast, ExpFuture}
TierClaims == {"gamer", "ai", "server", "basic", "freemium", "professional", "xyz"}
SigKinds == {"valid", "bad", "none"}
Shapes == {"three", "two", "four"}

SigText(d) ==
    CASE d.sig = "valid" -> "c2lnbmVk"
      [] d.sig = "bad"   -> "Zm9yZ2Vk"
      [] OTHER           -> ""

HeaderText(d) == "alg=RS256,kid=" \o d.kid

PayloadText(d) ==
    "iss=" \o d.iss \o ",aud=" \o d.aud \o ",exp=" \o d.exp \o ",tier=" \o d.tier

TokenText(d) ==
    CASE d.shape = "raw"   -> d.raw
      [] d.shape = "two"   -> HeaderText(d) \o "." \o PayloadText(d)
      [] d.shape = "three" -> HeaderText(d) \o "." \o PayloadText(d) \o "." \o SigText(d)
      [] OTHER             -> HeaderText(d) \o "." \o PayloadText(d) \o "." \o SigText(d)
                                \o "." \o "extra"

\* files at and beyond the size of the loader's buffer
OverSize == 32

Pad == "license-padding-"

Twice(s) == s \o s

\* filler twice as long as the loader's buffer
Filler == Twice(Twice(Twice(Twice(Twice(Twice(Twice(Twice(Pad))))))))

Fill(n) == SubSeq(Filler, 1, n)

FileSizes == {AEGIS_TOKEN_MAX_SIZE - 1, AEGIS_TOKEN_MAX_SIZE, AEGIS_TOKEN_MAX_SIZE + OverSize}

LongTexts == {Fill(n) : n \in FileSizes}

RawTexts == {"", "a.b.c", "gamer", "not-a-token-at-all"} \cup LongTexts

B2N(b) == IF b THEN 1 ELSE 0

\* how many of the validator's five checks the token would fail
Defects(d) ==
    B2N(d.shape # "three") + B2N(d.sig # "valid") + B2N(d.iss # ExpectedIssuer)
      + B2N(d.aud # ExpectedAudience) + B2N(d.exp # ExpFuture)

StructuredTokens ==
    {d \in [shape : Shapes, kid : Kids, iss : Issuers, aud : Audiences, exp : Expiries,
             tier : TierClaims, sig : SigKinds, raw : {""}] : Defects(d) <= MaxDefects}

RawTokens ==
    [shape : {"raw"}, kid : {"k1"}, iss : {ExpectedIssuer}, aud : {ExpectedAudience},
     exp : {ExpFuture}, tier : {"xyz"}, sig : {"none"}, raw : RawTexts]

Tokens == StructuredTokens \cup RawTokens

Files == Tokens \cup {Absent}

(***************************************************************************)
(* C library                                                               *)
(***************************************************************************)
strlen(s) == Len(s)

strstr(hay, needle) ==
    \E i \in 1..(Len(hay) - Len(needle) + 1) :
        SubSeq(hay, i, i + Len(needle) - 1) = needle

(***************************************************************************)
(* aegis_validate_token_stub: the return value and the tier it stores      *)
(***************************************************************************)
aegis_validate_token_stub_returns_token(tok) ==
    IF tok = NULL \/ strlen(tok) < MinTokenLen
    THEN [ret |-> -EINVAL, tier |-> NULL]
    ELSE [ret |-> 0,
          tier |-> IF strstr(tok, "gamer") THEN "gamer"
                   ELSE IF strstr(tok, "ai") THEN "ai"
                   ELSE IF strstr(tok, "server") THEN "server"
                   ELSE IF strstr(tok, "basic") THEN "basic"
                   ELSE IF strstr(tok, "freemium") THEN "freemium"
                   ELSE tok]

aegis_validate_token_stub(tok) ==
    IF tok = NULL \/ strlen(tok) < MinTokenLen
    THEN [ret |-> -EINVAL, tier |-> NULL]
    ELSE [ret |-> 0,
          tier |-> IF strstr(tok, "gamer") THEN "gamer"
                   ELSE IF strstr(tok, "ai") THEN "ai"
                   ELSE IF strstr(tok, "server") THEN "server"
                   ELSE IF strstr(tok, "basic") THEN "basic"
                   ELSE IF strstr(tok, "freemium") THEN "freemium"
                   ELSE "unknown"]

(***************************************************************************)
(* aegis_activate_features: the features it announces, and its two stores  *)
(***************************************************************************)
GamerBundle == {"frame_optimization", "p2p_network_tuning", "low_latency_mode"}
AiBundle == {"docker_integration", "gpu_acceleration", "container_optimization"}
ServerBundle == {"ai_server_acceleration", "multi_tenant_isolation",
                 "high_performance_networking"}
BasicBundle == {"security_updates"}

announced_features_gamer_gets_ai(t) ==
    IF t = "freemium" THEN {}
    ELSE IF t = "basic" THEN BasicBundle
    ELSE IF t = "gamer" THEN GamerBundle \cup AiBundle
    ELSE IF t = "ai" THEN AiBundle
    ELSE IF t = "server" THEN ServerBundle
    ELSE {}

announced_features(t) ==
    IF t = "freemium" THEN {}
    ELSE IF t = "basic" THEN BasicBundle
    ELSE IF t = "gamer" THEN GamerBundle
    ELSE IF t = "ai" THEN AiBundle
    ELSE IF t = "server" THEN ServerBundle
    ELSE {}

store_active_toggle(s) == [s EXCEPT !.active = ~s.active]

store_active(s) == [s EXCEPT !.active = TRUE]

store_tier(s, t) == [s EXCEPT !.tier = t]

aegis_activate_features(s, t) == store_tier(store_active(s), t)

License == [active |-> aegis_license_active, tier |-> aegis_license_tier]

\* kfree of the token buffer: valid once, on a live allocation
kfree(b) == IF b = "allocated" THEN "freed" ELSE "double_freed"

\* filp_close of token_file: valid once, on an open file
filp_close(h) == IF h = "open" THEN "closed" ELSE "double_closed"

\* kernel_read(token_file, buffer, AEGIS_TOKEN_MAX_SIZE - 1, &pos): the bytes it reads
read_count_whole_buffer(text) == Min(Len(text), AEGIS_TOKEN_MAX_SIZE)

read_count(text) == Min(Len(text), AEGIS_TOKEN_MAX_SIZE - 1)

Truncate(text) == SubSeq(text, 1, read_count(text))

(***************************************************************************)
(* The sysfs module: what each attribute shows, as the lines of its output *)
(***************************************************************************)
SysReaders == 1..NumSysReaders

NothingRead == [attr |-> "none", out |-> <<>>]

aegis_attrs == {"tier", "version", "status", "features", "disabled_features"}

tier_show(lt) == <<ToString(lt)>>

version_show == <<AEGIS_VERSION>>

status_names ==
    <<"unlicensed", "professional", "freemium", "gamer", "ai_developer", "server">>

\* what a read of element i of a C array yields; i counts from 0
OutOfBounds == "<out-of-bounds>"

at(array, i) == IF i \in 0..(Len(array) - 1) THEN array[i + 1] ELSE OutOfBounds

status_show_off_by_one(lt) ==
    IF lt >= 0 /\ lt <= 6 THEN <<at(status_names, lt)>> ELSE <<"unknown">>

status_show(lt) ==
    IF lt >= 0 /\ lt <= 5 THEN <<at(status_names, lt)>> ELSE <<"unknown">>

features_show_overlap ==
    <<"basic_monitoring", "gaming_optimization", "community_support", "proton_wine",
      "system_utilities", "ai_optimization">>

features_show ==
    <<"basic_monitoring", "gaming_optimization", "community_support", "proton_wine",
      "system_utilities">>

disabled_features_show ==
    <<"priority_updates", "ai_optimization", "professional_support",
      "advanced_monitoring", "kernel_enhancements", "enterprise_features">>

\* the store callback of an attribute: __ATTR(name, 0444, show, NULL)
attr_store_tier_writable(attr) == IF attr = "tier" THEN "tier_store" ELSE NULL

attr_store(attr) == NULL

show(attr, lt) ==
    CASE attr = "tier"     -> tier_show(lt)
      [] attr = "version"  -> version_show
      [] attr = "status"   -> status_show(lt)
      [] attr = "features" -> features_show
      [] OTHER             -> disabled_features_show

\* every feature identifier the sysfs module names
FeatureUniverse ==
    {"basic_monitoring", "gaming_optimization", "community_support", "proton_wine",
     "system_utilities", "priority_updates", "ai_optimization", "professional_support",
     "advanced_monitoring", "kernel_enhancements", "enterprise_features"}

Lines(out) == {out[i] : i \in 1..Len(out)}

(***************************************************************************)
(* Initial state: the module image as built, not yet loaded                *)
(***************************************************************************)
InitWith(code) ==
    /\ pc = "unloaded"
    /\ aegis_license_active = FALSE
    /\ aegis_license_tier = InitialTier
    /\ file = Absent
    /\ buffer = "none"
    /\ fh = "none"
    /\ token = NULL
    /\ tier = NULL
    /\ ret = 0
    /\ first = "none"
    /\ activated = {}
    /\ outcome = "none"
    /\ prev_run = "never"
    /\ init_ret = <<>>
    /\ bytes_read = 0
    /\ nul_index = -1
    /\ rd_pc = "idle"
    /\ rd_active = FALSE
    /\ rd_tier = InitialTier
    /\ sys_pc = "unloaded"
    /\ aegis_kobj = NULL
    /\ kobj_refs = 0
    /\ group = FALSE
    /\ license_tier = code
    /\ sys_rd = [r \in SysReaders |-> NothingRead]

Init == InitWith(AEGIS_LICENSE_TIER)

(***************************************************************************)
(* insmod: a fresh image (the initialisers of the statics), then the entry *)
(* of aegis_lkm_init.  The token file holds whatever was provisioned.      *)
(***************************************************************************)
InsmodFrom(provisioned) ==
    /\ pc = "unloaded"
    /\ \E f \in provisioned : file' = f
    /\ aegis_license_active' = FALSE
    /\ aegis_license_tier' = InitialTier
    /\ token' = NULL
    /\ tier' = NULL
    /\ ret' = 0
    /\ buffer' = "none"
    /\ first' = "none"
    /\ activated' = {}
    /\ outcome' = "none"
    /\ fh' = "none"
    /\ pc' = "read_alloc"
    /\ UNCHANGED <<prev_run, reader_vars, sys_vars>>
    /\ init_ret' = <<>>
    /\ bytes_read' = 0
    /\ nul_index' = -1

Insmod == InsmodFrom(Files)

(* aegis_read_token_file: kmalloc *)
ReadAlloc ==
    /\ pc = "read_alloc"
    /\ \E ok \in BOOLEAN :
          IF ok
          THEN /\ buffer' = "allocated"
               /\ pc' = "read_open"
               /\ UNCHANGED <<ret, outcome>>
          ELSE /\ ret' = -ENOMEM
               /\ outcome' = "load_failed"
               /\ pc' = "init_check"
               /\ UNCHANGED buffer
    /\ UNCHANGED <<aegis_license_active, aegis_license_tier, file, fh, token, tier,
                   first, activated, prev_run, reader_vars, sys_vars>>
    /\ UNCHANGED run_vars

(* aegis_read_token_file: filp_open *)
ReadOpen ==
    /\ pc = "read_open"
    /\ IF file = Absent
       THEN /\ buffer' = kfree(buffer)
            /\ ret' = -ENOENT
            /\ outcome' = "load_failed"
            /\ pc' = "init_check"
            /\ UNCHANGED fh
       ELSE /\ fh' = "open"
            /\ pc' = "read_read"
            /\ UNCHANGED <<buffer, ret, outcome>>
    /\ UNCHANGED <<aegis_license_active, aegis_license_tier, file, token, tier,
                   first, activated, prev_run, reader_vars, sys_vars>>
    /\ UNCHANGED run_vars

(* aegis_read_token_file: kernel_read, filp_close, the terminating NUL *)
ReadRead ==
    /\ pc = "read_read"
    /\ fh' = filp_close(fh)
    /\ \E io_ok \in BOOLEAN :
          IF io_ok
          THEN /\ bytes_read' = read_count(TokenText(file))
               /\ nul_index' = bytes_read'
               /\ token' = Truncate(TokenText(file))
               /\ ret' = 0
               /\ outcome' = "loaded"
               /\ UNCHANGED buffer
          ELSE /\ bytes_read' = -EIO
               /\ buffer' = kfree(buffer)
               /\ ret' = -EIO
               /\ outcome' = "load_failed"
               /\ UNCHANGED <<token, nul_index>>
    /\ pc' = "init_check"
    /\ UNCHANGED <<aegis_license_active, aegis_license_tier, file, tier,
                   first, activated, prev_run, reader_vars, sys_vars>>
    /\ UNCHANGED init_ret

InitCheck_sets_active ==
    /\ pc = "init_check"
    /\ IF ret # 0
       THEN /\ aegis_license_active' = TRUE
            /\ pc' = "loaded"
       ELSE /\ pc' = "validate"
            /\ UNCHANGED aegis_license_active
    /\ UNCHANGED <<aegis_license_tier, file, buffer, fh, token, tier, ret,
                   first, activated, outcome, prev_run, reader_vars, sys_vars>>
    /\ init_ret' = IF ret # 0 THEN <<0>> ELSE init_ret
    /\ UNCHANGED <<bytes_read, nul_index>>

InitCheck_returns_ret ==
    /\ pc = "init_check"
    /\ IF ret # 0
       THEN /\ aegis_license_active' = FALSE
            /\ pc' = "loaded"
       ELSE /\ pc' = "validate"
            /\ UNCHANGED aegis_license_active
    /\ UNCHANGED <<aegis_license_tier, file, buffer, fh, token, tier, ret,
                   first, activated, outcome, prev_run, reader_vars, sys_vars>>
    /\ init_ret' = IF ret # 0 THEN <<ret>> ELSE init_ret
    /\ UNCHANGED <<bytes_read, nul_index>>

(* aegis_lkm_init: if (ret != 0) { active = false; return 0; } *)
InitCheck ==
    /\ pc = "init_check"
    /\ IF ret # 0
       THEN /\ aegis_license_active' = FALSE
            /\ pc' = "loaded"
       ELSE /\ pc' = "validate"
            /\ UNCHANGED aegis_license_active
    /\ UNCHANGED <<aegis_license_tier, file, buffer, fh, token, tier, ret,
                   first, activated, outcome, prev_run, reader_vars, sys_vars>>
    /\ init_ret' = IF ret # 0 THEN <<0>> ELSE init_ret
    /\ UNCHANGED <<bytes_read, nul_index>>

(* aegis_lkm_init: ret = aegis_validate_token_stub(token, &tier) and its else *)
Validate ==
    /\ pc = "validate"
    /\ LET v == aegis_validate_token_stub(token) IN
         /\ ret' = v.ret
         /\ IF v.ret = 0
            THEN /\ tier' = v.tier
                 /\ outcome' = "accepted"
                 /\ pc' = "activate"
                 /\ UNCHANGED aegis_license_active
            ELSE /\ aegis_license_active' = FALSE
                 /\ outcome' = "rejected"
                 /\ pc' = "free"
                 /\ UNCHANGED tier
    /\ UNCHANGED <<aegis_license_tier, file, buffer, fh, token,
                   first, activated, prev_run, reader_vars, sys_vars>>
    /\ UNCHANGED run_vars

(* aegis_activate_features: the announcements, then the store the build    *)
(* emits first.  The two plain stores are unordered for a concurrent       *)
(* reader: either may land first.                                          *)
ActivateFirst ==
    /\ pc = "activate"
    /\ activated' = announced_features(tier)
    /\ \E f \in {"active", "tier"} :
          /\ first' = f
          /\ LET s == IF f = "active" THEN store_active(License)
                                      ELSE store_tier(License, tier) IN
               /\ aegis_license_active' = s.active
               /\ aegis_license_tier' = s.tier
    /\ pc' = "activate_second"
    /\ UNCHANGED <<file, buffer, fh, token, tier, ret, outcome, prev_run, reader_vars, sys_vars>>
    /\ UNCHANGED run_vars

(* aegis_activate_features: the other store; both have landed *)
ActivateSecond ==
    /\ pc = "activate_second"
    /\ LET s == aegis_activate_features(License, tier) IN
         /\ aegis_license_active' = s.active
         /\ aegis_license_tier' = s.tier
    /\ first' = "none"
    /\ pc' = "free"
    /\ UNCHANGED <<file, buffer, fh, token, tier, ret, activated, outcome, prev_run,
                   reader_vars, sys_vars>>
    /\ UNCHANGED run_vars

Free_skips_kfree ==
    /\ pc = "free"
    /\ buffer' = buffer
    /\ pc' = "loaded"
    /\ UNCHANGED <<aegis_license_active, aegis_license_tier, file, fh, token, tier, ret,
                   first, activated, outcome, prev_run, reader_vars, sys_vars>>
    /\ init_ret' = <<0>>
    /\ UNCHANGED <<bytes_read, nul_index>>

(* aegis_lkm_init: if (token) kfree(token); return 0 *)
Free ==
    /\ pc = "free"
    /\ buffer' = IF token # NULL THEN kfree(buffer) ELSE buffer
    /\ pc' = "loaded"
    /\ UNCHANGED <<aegis_license_active, aegis_license_tier, file, fh, token, tier, ret,
                   first, activated, outcome, prev_run, reader_vars, sys_vars>>
    /\ init_ret' = <<0>>
    /\ UNCHANGED <<bytes_read, nul_index>>

(* aegis_lkm_exit *)
Exit_keeps_active ==
    /\ pc = "loaded"
    /\ prev_run' = IF aegis_license_active THEN "active" ELSE "inactive"
    /\ pc' = "exited"
    /\ UNCHANGED <<aegis_license_active, aegis_license_tier, file, buffer, fh, token, tier, ret,
                   first, activated, outcome, reader_vars, sys_vars>>
    /\ UNCHANGED run_vars

Exit ==
    /\ pc = "loaded"
    /\ prev_run' = IF aegis_license_active THEN "active" ELSE "inactive"
    /\ aegis_license_active' = FALSE
    /\ pc' = "exited"
    /\ UNCHANGED <<aegis_license_tier, file, buffer, fh, token, tier, ret,
                   first, activated, outcome, reader_vars, sys_vars>>
    /\ UNCHANGED run_vars

(* the module's memory is released and its exports are gone: nothing of    *)
(* the image is left to read, the next insmod starts from the initialisers *)
ModuleFree ==
    /\ pc = "exited"
    /\ pc' = "unloaded"
    /\ aegis_license_active' = FALSE
    /\ aegis_license_tier' = InitialTier
    /\ file' = Absent
    /\ buffer' = "none"
    /\ token' = NULL
    /\ tier' = NULL
    /\ ret' = 0
    /\ activated' = {}
    /\ outcome' = "none"
    /\ fh' = "none"
    /\ UNCHANGED <<first, prev_run, reader_vars, sys_vars>>
    /\ init_ret' = <<>>
    /\ bytes_read' = 0
    /\ nul_index' = -1

(***************************************************************************)
(* The exported queries, called by a consumer one after the other          *)
(***************************************************************************)
aegis_is_licensed == aegis_license_active

aegis_get_tier == aegis_license_tier

CallIsLicensed ==
    /\ pc # "unloaded"
    /\ rd_pc = "idle"
    /\ rd_active' = aegis_is_licensed
    /\ rd_pc' = "asked"
    /\ UNCHANGED <<core_vars, rd_tier, sys_vars>>

CallGetTier ==
    /\ pc # "unloaded"
    /\ rd_pc = "asked"
    /\ rd_tier' = aegis_get_tier
    /\ rd_pc' = "idle"
    /\ UNCHANGED <<core_vars, rd_active, sys_vars>>

Next ==
    \/ Insmod
    \/ ReadAlloc
    \/ ReadOpen
    \/ ReadRead
    \/ InitCheck
    \/ Validate
    \/ ActivateFirst
    \/ ActivateSecond
    \/ Free
    \/ Exit
    \/ ModuleFree
    \/ CallIsLicensed
    \/ CallGetTier

Spec == Init /\ [][Next]_vars

(***************************************************************************)
(* The sysfs module's lifecycle                                            *)
(***************************************************************************)
(* insmod of the sysfs module: a fresh image, then the entry of its init *)
SysInsmodWith(code) ==
    /\ sys_pc = "unloaded"
    /\ aegis_kobj' = NULL
    /\ license_tier' = code
    /\ sys_pc' = "init_kobj"
    /\ UNCHANGED <<core_vars, reader_vars, kobj_refs, group, sys_rd>>

SysInsmod == SysInsmodWith(AEGIS_LICENSE_TIER)

(* aegis_lkm_init (sysfs): kobject_create_and_add, -ENOMEM when it fails *)
SysCreateKobj ==
    /\ sys_pc = "init_kobj"
    /\ \E ok \in BOOLEAN :
          IF ok
          THEN /\ aegis_kobj' = "kobj"
               /\ kobj_refs' = kobj_refs + 1
               /\ sys_pc' = "init_group"
          ELSE /\ sys_pc' = "init_failed"
               /\ UNCHANGED <<aegis_kobj, kobj_refs>>
    /\ UNCHANGED <<core_vars, reader_vars, group, license_tier, sys_rd>>

SysCreateGroup_keeps_kobj ==
    /\ sys_pc = "init_group"
    /\ \E ok \in BOOLEAN :
          IF ok
          THEN /\ group' = TRUE
               /\ sys_pc' = "loaded"
          ELSE /\ sys_pc' = "init_failed"
               /\ UNCHANGED group
    /\ UNCHANGED <<core_vars, reader_vars, aegis_kobj, kobj_refs, license_tier, sys_rd>>

(* the attribute files exist while the group is created under a live kobject *)
Readable == group /\ kobj_refs > 0

(* aegis_lkm_init (sysfs): sysfs_create_group, kobject_put when it fails *)
SysCreateGroup ==
    /\ sys_pc = "init_group"
    /\ \E ok \in BOOLEAN :
          IF ok
          THEN /\ group' = TRUE
               /\ sys_pc' = "loaded"
               /\ UNCHANGED kobj_refs
          ELSE /\ kobj_refs' = kobj_refs - 1
               /\ sys_pc' = "init_failed"
               /\ UNCHANGED group
    /\ UNCHANGED <<core_vars, reader_vars, aegis_kobj, license_tier, sys_rd>>

(* a read of one attribute file under /sys/kernel/aegis *)
SysRead(r) ==
    /\ Readable
    /\ \E a \in aegis_attrs :
          sys_rd' = [sys_rd EXCEPT ![r] = [attr |-> a, out |-> show(a, license_tier)]]
    /\ UNCHANGED <<core_vars, reader_vars, sys_pc, aegis_kobj, kobj_refs, group,
                   license_tier>>

(* a write to one attribute file: sysfs calls the attribute's store callback *)
(* when it has one and fails the write otherwise                           *)
SysWrite(r) ==
    /\ Readable
    /\ \E a \in aegis_attrs, v \in 0..5 :
          IF attr_store(a) # NULL
          THEN license_tier' = v
          ELSE UNCHANGED license_tier
    /\ UNCHANGED <<core_vars, reader_vars, sys_pc, aegis_kobj, kobj_refs, group, sys_rd>>

(* aegis_lkm_exit (sysfs) *)
SysExit ==
    /\ sys_pc = "loaded"
    /\ IF aegis_kobj # NULL
       THEN /\ group' = FALSE
            /\ kobj_refs' = kobj_refs - 1
       ELSE UNCHANGED <<group, kobj_refs>>
    /\ sys_pc' = "exited"
    /\ UNCHANGED <<core_vars, reader_vars, aegis_kobj, license_tier, sys_rd>>

(* the image is released after exit or after a failed init *)
SysModuleFree ==
    /\ sys_pc \in {"exited", "init_failed"}
    /\ aegis_kobj' = NULL
    /\ sys_pc' = "unloaded"
    /\ UNCHANGED <<core_vars, reader_vars, kobj_refs, group, license_tier, sys_rd>>

SysNext ==
    \/ SysInsmod
    \/ SysCreateKobj
    \/ SysCreateGroup
    \/ \E r \in SysReaders : SysRead(r)
    \/ \E r \in SysReaders : SysWrite(r)
    \/ SysExit
    \/ SysModuleFree

SysfsSpec == Init /\ [][SysNext]_vars

(***************************************************************************)
(* What the token's parts say about it: the five checks of a validating    *)
(* implementation (structure, signature, expiry, issuer, audience) and the *)
(* tier its tier claim names.                                              *)
(***************************************************************************)
Segments(text) == 1 + Cardinality({i \in 1..Len(text) : SubSeq(text, i, i) = "."})

WellFormed(d) == d.shape # "absent" /\ Segments(TokenText(d)) = 3

SignedByTrustedKey(d) == d.sig = "valid"

Expired(d) == d.exp # ExpFuture

IssuerAudienceOK(d) == d.iss = ExpectedIssuer /\ d.aud = ExpectedAudience

ValidToken(d) ==
    WellFormed(d) /\ SignedByTrustedKey(d) /\ ~Expired(d) /\ IssuerAudienceOK(d)

RecognizedTiers == {"gamer", "ai", "server", "basic", "freemium"}

Unlicensed == "none"

Unknown == "unknown"

\* the validator ran on the token of the file (the loader succeeded)
Validated == outcome \in {"accepted", "rejected"}

(***************************************************************************)
(* C1.  Every token that is malformed (not exactly three segments),        *)
(* unsigned or wrongly signed, expired, or of a wrong issuer or audience   *)
(* is rejected by aegis_validate_token_stub, and once aegis_lkm_init has   *)
(* returned aegis_is_licensed() is false.                                  *)
(***************************************************************************)
C1_InvalidTokenRejected ==
    (Validated /\ ~ValidToken(file)) =>
        /\ outcome = "rejected"
        /\ (pc = "loaded" => ~aegis_is_licensed)

(***************************************************************************)
(* C2.  In every reachable state, the states between the two stores of     *)
(* aegis_activate_features included, active = true implies that the tier   *)
(* is the one just validated (never "none", never a mix of two             *)
(* transitions), so no concurrent reader can see a torn pair.              *)
(***************************************************************************)
C2_NoTornState ==
    aegis_license_active =>
        (aegis_license_tier # Unlicensed /\ aegis_license_tier = tier)

(***************************************************************************)
(* C3.  When the token file is absent, aegis_lkm_init ends with            *)
(* aegis_is_licensed() false, the tier Unlicensed and no feature           *)
(* activated.                                                              *)
(***************************************************************************)
C3_AbsentFileFailsClosed ==
    (pc = "loaded" /\ file = Absent) =>
        /\ ~aegis_is_licensed
        /\ aegis_get_tier = Unlicensed
        /\ activated = {}

C3_Witness == pc = "loaded" /\ file = Absent /\ ret = -ENOENT

(***************************************************************************)
(* C4.  For every validly signed, unexpired token of the right issuer and  *)
(* audience, once aegis_lkm_init has run aegis_is_licensed() is true and   *)
(* aegis_get_tier() is exactly the tier the token's tier claim names.      *)
(***************************************************************************)
C4_ValidTokenGivesClaimedTier ==
    (pc = "loaded" /\ Validated /\ ValidToken(file) /\ file.tier \in RecognizedTiers) =>
        /\ aegis_is_licensed
        /\ aegis_get_tier = file.tier

(***************************************************************************)
(* C5.  A run of the pipeline that fails at load or at validation ends     *)
(* with active = false and tier = Unlicensed, whatever the module's        *)
(* earlier loads left behind (a previously active one included).           *)
(***************************************************************************)
C5_FailedRunIsSafeDefault ==
    (pc \in {"free", "loaded"} /\ outcome \in {"load_failed", "rejected"}) =>
        /\ aegis_license_active = FALSE
        /\ aegis_license_tier = Unlicensed

C5_Witness ==
    /\ pc = "loaded"
    /\ outcome \in {"load_failed", "rejected"}
    /\ prev_run = "active"

(***************************************************************************)
(* C6.  After aegis_lkm_exit, from any state, the published state is       *)
(* {active: false, tier: Unlicensed}: aegis_is_licensed() is false and     *)
(* aegis_get_tier() reports the unlicensed tier, as before any load.       *)
(***************************************************************************)
C6_ExitPublishesUnlicensed ==
    pc = "exited" =>
        /\ ~aegis_is_licensed
        /\ aegis_get_tier = Unlicensed

(***************************************************************************)
(* C7.  Activation is idempotent: from every license state and for every   *)
(* tier, aegis_activate_features applied twice with the same tier leaves   *)
(* the active flag and the tier as one application does.                   *)
(***************************************************************************)
TierLiterals == RecognizedTiers \cup {Unknown}

C7_ActivateIdempotent ==
    \A t \in TierLiterals :
        aegis_activate_features(aegis_activate_features(License, t), t)
            = aegis_activate_features(License, t)

C7_Witness ==
    /\ pc = "free"
    /\ outcome = "accepted"
    /\ License = [active |-> TRUE, tier |-> tier]
    /\ aegis_activate_features(License, tier) = License

(***************************************************************************)
(* C8.  The tier validation yields depends only on the token's tier        *)
(* claim: any other accepted token carrying the same tier claim (differing *)
(* in header, other claims or signature) yields the same tier as the token *)
(* just validated.                                                         *)
(***************************************************************************)
C8_TierDependsOnlyOnClaim ==
    (pc = "activate" /\ ValidToken(file)) =>
        \A d \in Tokens :
            (ValidToken(d) /\ d.tier = file.tier
                /\ aegis_validate_token_stub(TokenText(d)).ret = 0) =>
                aegis_validate_token_stub(TokenText(d)).tier = tier

(***************************************************************************)
(* C9.  A token whose tier claim names no recognized tier is not rejected: *)
(* validation succeeds with tier "unknown", and the activation enables no  *)
(* feature.                                                                *)
(***************************************************************************)
C9_UnknownClaimGivesUnknown ==
    (pc = "loaded" /\ Validated /\ ValidToken(file) /\ file.tier = "xyz") =>
        /\ outcome = "accepted"
        /\ aegis_get_tier = Unknown
        /\ activated = {}

(***************************************************************************)
(* C10.  Partition law: whatever the tier, the set a reader gets from the  *)
(* features attribute and the set a reader gets from the disabled_features *)
(* attribute are disjoint, and together they are every feature the sysfs   *)
(* module names.                                                           *)
(***************************************************************************)
C10_PartitionLaw ==
    \A r1, r2 \in SysReaders :
        (sys_rd[r1].attr = "features" /\ sys_rd[r2].attr = "disabled_features") =>
            /\ Lines(sys_rd[r1].out) \cap Lines(sys_rd[r2].out) = {}
            /\ Lines(sys_rd[r1].out) \cup Lines(sys_rd[r2].out) = FeatureUniverse

C10_Witness ==
    \E r1, r2 \in SysReaders :
        /\ sys_rd[r1].attr = "features"
        /\ sys_rd[r2].attr = "disabled_features"
        /\ Len(sys_rd[r1].out) > 0
        /\ Len(sys_rd[r2].out) > 0

(***************************************************************************)
(* C11.  The advanced bundles of the gamer, ai and server tiers are        *)
(* pairwise disjoint: while the license is active with tier gamer, the     *)
(* activated features include the gamer bundle and no ai-only or           *)
(* server-only feature, and symmetrically for ai and for server.           *)
(***************************************************************************)
Licensed(t) == aegis_license_active /\ aegis_license_tier = t

C11_BundlesDisjoint ==
    /\ Licensed("gamer") =>
          (GamerBundle \subseteq activated /\ activated \cap (AiBundle \cup ServerBundle) = {})
    /\ Licensed("ai") =>
          (AiBundle \subseteq activated /\ activated \cap (GamerBundle \cup ServerBundle) = {})
    /\ Licensed("server") =>
          (ServerBundle \subseteq activated /\ activated \cap (GamerBundle \cup AiBundle) = {})

C11_Witness ==
    /\ pc = "loaded"
    /\ Licensed("gamer")
    /\ activated = GamerBundle
    /\ activated # {}

(***************************************************************************)
(* C12.  An allocation or I/O failure while reading the token aborts only  *)
(* the license pipeline: aegis_lkm_init still returns 0 and leaves the     *)
(* license inactive; no outcome of the loader makes it return an error or  *)
(* activate the license.                                                   *)
(***************************************************************************)
C12_LoaderFailureStaysLocal ==
    /\ init_ret \in {<<>>, <<0>>}
    /\ pc = "loaded" => init_ret = <<0>>
    /\ outcome = "load_failed" => ~aegis_license_active

C12_Witness ==
    /\ pc = "loaded"
    /\ ret \in {-ENOMEM, -EIO}
    /\ outcome = "load_failed"
    /\ init_ret = <<0>>

(***************************************************************************)
(* C13.  On every exit path of the pipeline (allocation failure, file not  *)
(* found, read error, validation rejection, success) each resource         *)
(* acquired is released exactly once by the time aegis_lkm_init returns:   *)
(* the token buffer is freed and the file closed, with no leak, no double  *)
(* free, and no use of the buffer after it is freed.                       *)
(***************************************************************************)
C13_ResourcesReleasedOnce ==
    /\ buffer # "double_freed"
    /\ fh # "double_closed"
    /\ pc \in {"read_read", "validate"} => buffer = "allocated"
    /\ init_ret # <<>> =>
          /\ buffer = "freed" \/ (buffer = "none" /\ ret = -ENOMEM)
          /\ fh = "closed" \/ (fh = "none" /\ ret \in {-ENOMEM, -ENOENT})

C13_Witness ==
    /\ init_ret = <<0>>
    /\ outcome = "rejected"
    /\ buffer = "freed"
    /\ fh = "closed"

(***************************************************************************)
(* Both modules side by side, for properties of the whole query surface.   *)
(* The token file holds a valid gamer token; a load still fails when the   *)
(* allocation or the read fails.                                           *)
(***************************************************************************)
GamerToken ==
    [shape |-> "three", kid |-> "k1", iss |-> ExpectedIssuer, aud |-> ExpectedAudience,
     exp |-> ExpFuture, tier |-> "gamer", sig |-> "valid", raw |-> ""]

QueryFiles == {GamerToken}

QueryNext ==
    \/ InsmodFrom(QueryFiles)
    \/ ReadAlloc
    \/ ReadOpen
    \/ ReadRead
    \/ InitCheck
    \/ Validate
    \/ ActivateFirst
    \/ ActivateSecond
    \/ Free
    \/ Exit
    \/ ModuleFree
    \/ CallIsLicensed
    \/ CallGetTier
    \/ SysNext

QuerySpec == Init /\ [][QueryNext]_vars

(***************************************************************************)
(* C14.  The query surface is read-only: every query (the five sysfs       *)
(* attributes, aegis_is_licensed, aegis_get_tier), in any number and any   *)
(* interleaving, leaves the license state (tier, active flag) unchanged,   *)
(* and a write to an attribute changes nothing either, no attribute having *)
(* a store callback.                                                       *)
(***************************************************************************)
Query ==
    \/ CallIsLicensed
    \/ CallGetTier
    \/ \E r \in SysReaders : SysRead(r)
    \/ \E r \in SysReaders : SysWrite(r)

license_state == <<aegis_license_active, aegis_license_tier, license_tier>>

C14_QueriesReadOnly == [][Query => UNCHANGED license_state]_vars

C14_Witness ==
    /\ rd_pc = "idle"
    /\ rd_active
    /\ rd_tier = "gamer"
    /\ Licensed("gamer")
    /\ \E r \in SysReaders : sys_rd[r] = [attr |-> "tier", out |-> <<"2">>]
    /\ license_tier = AEGIS_LICENSE_TIER

(***************************************************************************)
(* C15.  In every reachable state and for every token content, the tier    *)
(* returned by aegis_get_tier() is one of the fixed enumerated values      *)
(* (none, freemium, basic, gamer, ai, server, unknown), never text taken   *)
(* from the token, also once the token buffer has been freed.              *)
(***************************************************************************)
EnumeratedTiers == {Unlicensed} \cup TierLiterals

C15_TierIsEnumerated ==
    /\ aegis_get_tier \in EnumeratedTiers
    /\ rd_tier \in EnumeratedTiers
    /\ tier \in {NULL} \cup TierLiterals

C15_Witness ==
    /\ buffer = "freed"
    /\ file \in StructuredTokens
    /\ file.tier = "xyz"
    /\ rd_pc = "idle"
    /\ rd_tier = "unknown"
    /\ aegis_get_tier = "unknown"

(***************************************************************************)
(* C16.  After any sequence of init and unload, active = true holds only   *)
(* if the most recent run loaded a token, its validation returned success, *)
(* and no unload has happened since; the initial state and every state     *)
(* after a failed run or an unload have active = false.                    *)
(***************************************************************************)
C16_ActiveOnlyAfterSuccess ==
    /\ aegis_license_active =>
          /\ outcome = "accepted"
          /\ token # NULL
          /\ ret = 0
          /\ pc \in {"activate_second", "free", "loaded"}
    /\ pc \in {"unloaded", "exited"} => ~aegis_license_active
    /\ outcome \in {"load_failed", "rejected"} => ~aegis_license_active

C16_Witness ==
    /\ pc = "loaded"
    /\ aegis_license_active
    /\ outcome = "accepted"
    /\ prev_run = "inactive"

(***************************************************************************)
(* C17.  For every token file size, also beyond 2048 bytes, and every read *)
(* result, the loader reads at most AEGIS_TOKEN_MAX_SIZE - 1 = 2047 bytes  *)
(* and writes the terminating NUL at an index inside the 2048-byte buffer; *)
(* a negative read result is reported as an I/O error and never used as an *)
(* index.                                                                  *)
(***************************************************************************)
C17_ReadWithinBuffer ==
    /\ bytes_read <= AEGIS_TOKEN_MAX_SIZE - 1
    /\ nul_index \in -1..(AEGIS_TOKEN_MAX_SIZE - 1)
    /\ bytes_read < 0 =>
          /\ nul_index = -1
          /\ ret = -EIO
          /\ outcome = "load_failed"
          /\ token = NULL
    /\ nul_index >= 0 =>
          /\ nul_index = bytes_read
          /\ token # NULL
          /\ strlen(token) = nul_index

C17_Witness ==
    /\ file \in RawTokens
    /\ Len(file.raw) > AEGIS_TOKEN_MAX_SIZE
    /\ bytes_read = AEGIS_TOKEN_MAX_SIZE - 1
    /\ nul_index = AEGIS_TOKEN_MAX_SIZE - 1
    /\ pc = "loaded"

(***************************************************************************)
(* The sysfs module built with any value of its license_tier static: the   *)
(* values around the status_names table and the two ends of a C int.       *)
(***************************************************************************)
TierCodeSpan == 3

\* the least and the greatest value of a 32-bit int
IntMin == -(2^30) - 2^30

IntMax == (2^30 - 1) + 2^30

TierCodes ==
    (-TierCodeSpan..(Len(status_names) - 1 + TierCodeSpan)) \cup {IntMin, IntMax}

StatusInit == \E code \in TierCodes : InitWith(code)

StatusNext ==
    \/ SysInsmodWith(license_tier)
    \/ SysCreateKobj
    \/ SysCreateGroup
    \/ \E r \in SysReaders : SysRead(r)
    \/ \E r \in SysReaders : SysWrite(r)
    \/ SysExit
    \/ SysModuleFree

StatusSpec == StatusInit /\ [][StatusNext]_vars

(***************************************************************************)
(* C18.  For every integer value of license_tier (negative, 0..5, above 5) *)
(* status_show never indexes status_names outside 0..5: it reports the     *)
(* table entry when 0 <= license_tier <= 5 and "unknown" otherwise, and    *)
(* the name agrees with the numeric code tier_show reports (code 2 with    *)
(* "freemium").                                                            *)
(***************************************************************************)
C18_StatusWithinTable ==
    /\ \A lt \in TierCodes : status_show(lt) # <<OutOfBounds>>
    /\ \A r \in SysReaders :
          sys_rd[r].attr = "status" =>
             /\ sys_rd[r].out # <<OutOfBounds>>
             /\ license_tier \in 0..5 => sys_rd[r].out = <<status_names[license_tier + 1]>>
             /\ license_tier \notin 0..5 => sys_rd[r].out = <<"unknown">>
             /\ license_tier = 2 => sys_rd[r].out = <<"freemium">>
             /\ \A q \in SysReaders :
                   sys_rd[q].attr = "tier" => sys_rd[q].out = <<ToString(license_tier)>>

C18_Witness ==
    /\ license_tier > 5
    /\ \E r, q \in SysReaders :
          /\ sys_rd[r] = [attr |-> "status", out |-> <<"unknown">>]
          /\ sys_rd[q] = [attr |-> "tier", out |-> <<ToString(license_tier)>>]

(***************************************************************************)
(* C19.  The stub validator accepts a token only when the token exists and *)
(* contains one of the expected keywords (gamer, ai, server, basic,        *)
(* freemium): a token that is null, too short, or holds none of the        *)
(* keywords does not pass validation and does not activate the license.    *)
(***************************************************************************)
ExpectedKeywords == {"gamer", "ai", "server", "basic", "freemium"}

HasKeyword(text) == \E k \in ExpectedKeywords : strstr(text, k)

C19_KeywordRequired ==
    (pc = "loaded" /\ (token = NULL \/ strlen(token) < MinTokenLen \/ ~HasKeyword(token))) =>
        /\ outcome # "accepted"
        /\ ~aegis_license_active

(***************************************************************************)
(* C20.  In the sysfs module, for every sequence of load and unload in     *)
(* which exit runs only after a successful init, the kobject reference     *)
(* taken by kobject_create_and_add is released exactly once (by init's     *)
(* failure path when sysfs_create_group fails, otherwise by exit), the     *)
(* attribute group is removed only if it was created, and after a failed   *)
(* init or an unload no sysfs attribute remains readable.                  *)
(***************************************************************************)
C20_KobjectReleasedOnce ==
    /\ kobj_refs \in {0, 1}
    /\ group => kobj_refs = 1
    /\ sys_pc = "init_group" => (kobj_refs = 1 /\ ~group /\ aegis_kobj # NULL)
    /\ sys_pc = "loaded" => (kobj_refs = 1 /\ group /\ aegis_kobj # NULL)
    /\ sys_pc \in {"init_failed", "exited", "unloaded"} =>
          /\ kobj_refs = 0
          /\ ~group
          /\ \A r \in SysReaders : ~ENABLED SysRead(r)

C20_Witness ==
    /\ sys_pc = "init_failed"
    /\ aegis_kobj # NULL
    /\ kobj_refs = 0
    /\ \E r \in SysReaders : sys_rd[r] # NothingRead

====
